---- MODULE Spec2Model ----
(***************************************************************************)
(* Model of server/app/main.py: the conversation step log (create, list,   *)
(* get, rename, appendStep, undo, reset, updateState) and the blind JSON   *)
(* Patch application to stored objects (create_object, get_object,         *)
(* apply_patch), over two collections of a document store.                 *)
(*                                                                         *)
(* Each action of Spec is one request handler run to completion; the store *)
(* calls a handler makes (find_one, insert_one, update_one) are operators  *)
(* on the collection.  `resp` is the HTTP response of the last request.    *)
(* SpecConc runs requests side by side: a handler is then two steps, up to *)
(* its call of the store and the call itself, and `inflight` holds the     *)
(* requests between the two.                                               *)
(***************************************************************************)
EXTENDS Integers, Sequences, FiniteSets, TLC

VARIABLES
    conversations,  \* db["conversations"]: ObjectId -> stored document
    objects,        \* db.objects: ObjectId -> stored document {"doc": ...}
    nextOid,        \* number of ObjectIds generated so far (ObjectId())
    now,            \* the wall clock read by datetime.utcnow()
    resp,           \* the response of the last handled request
    inflight        \* requests a handler has begun and not yet answered

vars == <<conversations, objects, nextOid, now, resp, inflight>>

-----------------------------------------------------------------------------
(* Bounds of the model. *)

MaxConvs == 1      \* conversations the model creates
MaxObjects == 1    \* objects the model creates
MaxTime == 1       \* last instant of the clock
MaxSteps == 2      \* longest step log the model extends
MaxRun == 2        \* longest run of appends followed by as many undos
MaxInflight == 2   \* requests SpecConc handles side by side

\* each stored document takes one ObjectId, a generated title one more
MaxOid == 2 * MaxConvs + MaxObjects

\* SpecTwo stores one conversation more than Spec, and no object
TwoConvs == MaxConvs + 1

OidRange == 2 * TwoConvs + MaxObjects

-----------------------------------------------------------------------------
(* JSON values.  A document is a string-keyed mapping of numbers; None is  *)
(* the null of an absent optional field.                                   *)

None == 0

EmptyDoc == [k \in {} |-> None]

DocA1 == [k \in {"a"} |-> 1]

DocWith(doc, key, value) ==
    [k \in (DOMAIN doc) \cup {key} |-> IF k = key THEN value ELSE doc[k]]

DocWithout(doc, key) ==
    [k \in (DOMAIN doc) \ {key} |-> doc[k]]

-----------------------------------------------------------------------------
(* ObjectIds.  A generated id is a number; its string form is what a       *)
(* request carries.  A string that is no id's string form is malformed.    *)

str(id) == ToString(id)

\* the strings ObjectId(s) accepts, and the id each denotes
OidStrings == {str(i) : i \in 1..OidRange}

OidOfString == [s \in OidStrings |-> CHOOSE i \in 1..OidRange : str(i) = s]

IsValidOid(s) == s \in OidStrings

ObjectId(s) == OidOfString[s]

\* the id strings a request of Spec may carry: the string of every id Spec
\* can generate (fewer documents than ids are stored, so one of them names
\* no document of a collection) and one malformed string
IdInputs == {str(i) : i \in 1..MaxOid} \cup {"zzz"}

-----------------------------------------------------------------------------
(* The clock: each call of datetime.utcnow() returns the current instant   *)
(* or a later one.                                                         *)

utcnow(t) == {u \in t..(t + 1) : u <= MaxTime}

-----------------------------------------------------------------------------
(* HTTP responses. *)

Response(op, status, detail, body) ==
    [op |-> op, status |-> status, detail |-> detail, body |-> body]

Ok(op, body) == Response(op, 200, "", <<body>>)

HTTPException(op, status, detail) == Response(op, status, detail, <<>>)

\* an exception no handler catches: the framework answers 500
Uncaught(op) == Response(op, 500, "Internal Server Error", <<>>)

-----------------------------------------------------------------------------
(* The document store. *)

find_one(coll, id) == IF id \in DOMAIN coll THEN <<coll[id]>> ELSE <<>>

insert_one(coll, id, doc) ==
    [i \in (DOMAIN coll) \cup {id} |-> IF i = id THEN doc ELSE coll[i]]

\* a result that reports a match whether or not a document matched
matched_always(coll, id) == 1

matched_count(coll, id) == IF id \in DOMAIN coll THEN 1 ELSE 0

\* {"$addToSet": {"steps": st}} would drop a step equal to a stored one
AddToSet(steps, st) ==
    IF \E i \in 1..Len(steps) : steps[i] = st THEN steps ELSE Append(steps, st)

\* a push at position 0 ("$position": 0) would put the new step first
PushFirst(steps, st) == <<st>> \o steps

\* {"$push": {"steps": st}}
Push(steps, st) == Append(steps, st)

\* {"$pop": {"steps": -1}} would remove the first element instead
PopFirst(steps) == IF steps = <<>> THEN <<>> ELSE Tail(steps)

\* {"$pop": {"steps": 1}}: removes the last element; nothing on an empty array
Pop(steps) == IF steps = <<>> THEN <<>> ELSE SubSeq(steps, 1, Len(steps) - 1)

-----------------------------------------------------------------------------
(* The JSON Patch engine (jsonpatch.JsonPatch(...).apply) on a mapping.    *)

PathKey(path) ==
    CASE path = "/a" -> "a"
      [] path = "/x" -> "x"
      [] path = "/n" -> "n"
      [] path = "/missing" -> "missing"

Op(op, path, value) == [op |-> op, path |-> path, value |-> value]

\* a move or copy operation names its source member in "from"
FromOp(op, from, path) == [op |-> op, from |-> from, path |-> path]

\* one operation: the new document, or a JsonPatchException (a conflict, or
\* a failed test).  PatchIn.patch is a list of dicts of any content, so the
\* engine is handed, and applies, every operation of RFC 6902.
ApplyOp(doc, o) ==
    LET key == PathKey(o.path) IN
    CASE o.op = "add" -> [ok |-> TRUE, doc |-> DocWith(doc, key, o.value)]
      [] o.op = "replace" ->
            IF key \in DOMAIN doc
            THEN [ok |-> TRUE, doc |-> DocWith(doc, key, o.value)]
            ELSE [ok |-> FALSE, doc |-> doc]
      [] o.op = "remove" ->
            IF key \in DOMAIN doc
            THEN [ok |-> TRUE, doc |-> DocWithout(doc, key)]
            ELSE [ok |-> FALSE, doc |-> doc]
      [] o.op = "test" ->
            [ok |-> key \in DOMAIN doc /\ doc[key] = o.value, doc |-> doc]
      [] o.op = "copy" ->
            LET from == PathKey(o.from) IN
            IF from \in DOMAIN doc
            THEN [ok |-> TRUE, doc |-> DocWith(doc, key, doc[from])]
            ELSE [ok |-> FALSE, doc |-> doc]
      [] o.op = "move" ->
            LET from == PathKey(o.from) IN
            IF from \in DOMAIN doc
            THEN [ok |-> TRUE, doc |-> DocWith(DocWithout(doc, from), key, doc[from])]
            ELSE [ok |-> FALSE, doc |-> doc]

RECURSIVE JsonPatchApply(_, _)
\* the operations in order on a copy of doc; the first conflict aborts
JsonPatchApply(doc, patch) ==
    IF patch = <<>> THEN [ok |-> TRUE, doc |-> doc]
    ELSE LET r == ApplyOp(doc, Head(patch)) IN
         IF r.ok THEN JsonPatchApply(r.doc, Tail(patch))
         ELSE [ok |-> FALSE, doc |-> doc]

-----------------------------------------------------------------------------
(* Request payloads. *)

RECURSIVE SeqsUpTo(_, _)
SeqsUpTo(S, n) ==
    IF n = 0 THEN {<<>>}
    ELSE LET shorter == SeqsUpTo(S, n - 1) IN
         shorter \cup {Append(q, e) : q \in shorter, e \in S}

PatchInputs ==
    { <<Op("add", "/x", 1)>>,
      <<Op("add", "/a", 1)>>,
      <<Op("remove", "/x", None)>>,
      <<Op("replace", "/missing", 2)>>,
      <<Op("add", "/x", 1), Op("replace", "/missing", 2)>>,
      <<Op("test", "/a", 1)>>,
      <<FromOp("copy", "/a", "/x")>>,
      <<FromOp("move", "/x", "/a")>> }

DocInputs == {EmptyDoc, DocA1}

\* ConversationCreate.title: Optional[str], absent (<<>>) or given
TitleOptInputs == {<<>>, <<"">>, <<"A">>}

\* ConversationCreate.initial: absent (<<>>) or given
InitialOptInputs == {<<>>, <<DocA1>>}

\* ConversationUpdateTitle.title
TitleInputs == {"", "A"}

\* ConversationAppend payloads
AppendInputs ==
    { [templatePath |-> "t1", mode |-> "explicit",
       ops |-> <<Op("add", "/n", 1)>>],
      [templatePath |-> "t2", mode |-> "diff",
       ops |-> <<Op("replace", "/missing", 2), Op("remove", "/x", None)>>] }

TemplateRef(path, mode) == [templatePath |-> path, mode |-> mode]

\* ConversationStateModel payloads (both fields default to empty)
StateInputs ==
    { [pendingSteps |-> <<>>, sessionState |-> EmptyDoc],
      [pendingSteps |-> <<TemplateRef("t1", "diff")>>,
       sessionState |-> [k \in {"k"} |-> 1]] }

-----------------------------------------------------------------------------
(* Initial state: both collections empty. *)

Init ==
    /\ conversations = [i \in {} |-> None]
    /\ objects = [i \in {} |-> None]
    /\ nextOid = 0
    /\ now = 0
    /\ resp = Response("none", 0, "", <<>>)
    /\ inflight = <<>>

-----------------------------------------------------------------------------
(* Objects. *)

\* POST /objects
create_object(doc) ==
    /\ LET id == nextOid + 1 IN
       /\ objects' = insert_one(objects, id, [doc |-> doc])
       /\ nextOid' = id
       /\ resp' = Ok("create_object", [id |-> str(id)])
    /\ UNCHANGED <<conversations, now, inflight>>

\* GET /objects/{object_id}
get_object(object_id) ==
    /\ resp' =
         IF ~IsValidOid(object_id)
         THEN HTTPException("get_object", 400, "invalid_id")
         ELSE LET found == find_one(objects, ObjectId(object_id)) IN
              IF found = <<>>
              THEN HTTPException("get_object", 404, "not_found")
              ELSE Ok("get_object", [id |-> object_id, doc |-> found[1].doc])
    /\ UNCHANGED <<conversations, objects, nextOid, now, inflight>>

\* {"$set": {"doc.<key>": value, ...}} would merge the keys of `updated`
\* into the stored doc and never drop a removed key
SetDocKeys(obj, updated) ==
    [obj EXCEPT !.doc = [k \in (DOMAIN @) \cup (DOMAIN updated) |->
                            IF k \in DOMAIN updated THEN updated[k] ELSE @[k]]]

\* the document apply_patch persists for a fetched object: {"$set": {"doc": updated}}
SetDoc(obj, updated) == [obj EXCEPT !.doc = updated]

RECURSIVE AppliedPrefix(_, _)
\* doc after the operations of patch that precede its first conflict
AppliedPrefix(doc, patch) ==
    IF patch = <<>> THEN doc
    ELSE LET r == ApplyOp(doc, Head(patch)) IN
         IF r.ok THEN AppliedPrefix(r.doc, Tail(patch)) ELSE doc

\* a handler that persists after every operation leaves the applied prefix
\* of a failing patch in the store
apply_patch_per_op(object_id, patch) ==
    /\ IF ~IsValidOid(object_id)
       THEN /\ resp' = HTTPException("apply_patch", 400, "invalid_id")
            /\ UNCHANGED objects
       ELSE LET id == ObjectId(object_id)
                found == find_one(objects, id) IN
            IF found = <<>>
            THEN /\ resp' = HTTPException("apply_patch", 404, "not_found")
                 /\ UNCHANGED objects
            ELSE LET r == JsonPatchApply(found[1].doc, patch)
                     done == AppliedPrefix(found[1].doc, patch) IN
                 /\ objects' = [objects EXCEPT ![id] = SetDoc(@, done)]
                 /\ resp' = IF r.ok
                            THEN Ok("apply_patch", [id |-> object_id, doc |-> done])
                            ELSE HTTPException("apply_patch", 400, "patch_error")
    /\ UNCHANGED <<conversations, nextOid, now, inflight>>

\* POST /objects/{object_id}/applyPatch
apply_patch(object_id, patch) ==
    /\ IF ~IsValidOid(object_id)
       THEN /\ resp' = HTTPException("apply_patch", 400, "invalid_id")
            /\ UNCHANGED objects
       ELSE LET id == ObjectId(object_id)
                found == find_one(objects, id) IN
            IF found = <<>>
            THEN /\ resp' = HTTPException("apply_patch", 404, "not_found")
                 /\ UNCHANGED objects
            ELSE LET r == JsonPatchApply(found[1].doc, patch) IN
                 IF ~r.ok
                 THEN /\ resp' = HTTPException("apply_patch", 400, "patch_error")
                      /\ UNCHANGED objects
                 ELSE /\ objects' = [objects EXCEPT ![id] = SetDoc(@, r.doc)]
                      /\ resp' = Ok("apply_patch", [id |-> object_id, doc |-> r.doc])
    /\ UNCHANGED <<conversations, nextOid, now, inflight>>

-----------------------------------------------------------------------------
(* Conversations. *)

\* payload.title or str(ObjectId()): an absent or empty title is replaced
\* by the string of a freshly generated id
NeedsGeneratedTitle(title_opt) == title_opt = <<>> \/ title_opt[1] = ""

\* a fixed default title would be shared by every untitled conversation
UntitledTitle(id) == "untitled"

\* str(ObjectId())
GeneratedTitle(id) == str(id)

NewConversation(title, initial, created, updated) ==
    [ title |-> title,
      initial |-> initial,
      steps |-> <<>>,
      pending_steps |-> <<>>,
      session_state |-> EmptyDoc,
      created_at |-> created,
      updated_at |-> updated ]

\* initial: dict = Field(default_factory=dict)
InitialOrDefault(initial_opt) ==
    IF initial_opt = <<>> THEN EmptyDoc ELSE initial_opt[1]

\* POST /conversations
create_conversation(title_opt, initial_opt) ==
    LET gen == NeedsGeneratedTitle(title_opt)
        initial == InitialOrDefault(initial_opt)
        titleOid == nextOid + 1
        id == IF gen THEN nextOid + 2 ELSE nextOid + 1
        title == IF gen THEN GeneratedTitle(titleOid) ELSE title_opt[1]
    IN
    /\ \E t1 \in utcnow(now) : \E t2 \in utcnow(t1) :
         LET doc == NewConversation(title, initial, t1, t2) IN
         /\ conversations' = insert_one(conversations, id, doc)
         /\ now' = t2
         /\ resp' = Ok("create_conversation", [id |-> str(id), doc |-> doc])
    /\ nextOid' = id
    /\ UNCHANGED <<objects, inflight>>

Item(id) ==
    [ id |-> str(id),
      title |-> conversations[id].title,
      updated_at |-> conversations[id].updated_at ]

\* sort("updated_at", 1) would list the oldest first
SortedByUpdatedAsc(order) ==
    /\ Len(order) = Cardinality(DOMAIN conversations)
    /\ {order[i] : i \in 1..Len(order)} = DOMAIN conversations
    /\ \A i \in 1..(Len(order) - 1) :
         conversations[order[i]].updated_at <= conversations[order[i + 1]].updated_at

\* find(...).sort("updated_at", -1): every stored conversation once, newest
\* first; the order among equal updated_at is the store's
SortedByUpdatedDesc(order) ==
    /\ Len(order) = Cardinality(DOMAIN conversations)
    /\ {order[i] : i \in 1..Len(order)} = DOMAIN conversations
    /\ \A i \in 1..(Len(order) - 1) :
         conversations[order[i]].updated_at >= conversations[order[i + 1]].updated_at

\* GET /conversations
list_conversations ==
    /\ \E order \in SeqsUpTo(DOMAIN conversations, Cardinality(DOMAIN conversations)) :
         /\ SortedByUpdatedDesc(order)
         /\ resp' = Ok("list_conversations",
                       [items |-> [i \in 1..Len(order) |-> Item(order[i])]])
    /\ UNCHANGED <<conversations, objects, nextOid, now, inflight>>

\* the conversation as get_conversation returns it
c_out(cid, c) ==
    [ id |-> cid,
      title |-> c.title,
      initial |-> c.initial,
      steps |-> c.steps,
      pendingSteps |-> c.pending_steps,
      sessionState |-> c.session_state ]

\* GET /conversations/{cid}
get_conversation(cid) ==
    /\ resp' =
         IF ~IsValidOid(cid)
         THEN Uncaught("get_conversation")
         ELSE LET found == find_one(conversations, ObjectId(cid)) IN
              IF found = <<>>
              THEN HTTPException("get_conversation", 404, "Not found")
              ELSE Ok("get_conversation", c_out(cid, found[1]))
    /\ UNCHANGED <<conversations, objects, nextOid, now, inflight>>

\* a rename that $sets the title alone would leave updated_at as it was
SetTitleOnly(c, title, t) == [c EXCEPT !.title = title]

\* {"$set": {"title": title, "updated_at": t}}
SetTitle(c, title, t) == [c EXCEPT !.title = title, !.updated_at = t]

Step(payload, at) ==
    [ templatePath |-> payload.templatePath,
      mode |-> payload.mode,
      ops |-> payload.ops,
      at |-> at ]

\* {"$push": {"steps": st}, "$set": {"updated_at": t}}
PushStep(c, st, t) == [c EXCEPT !.steps = Push(@, st), !.updated_at = t]

\* an undo that returns early on an empty log would leave updated_at alone
PopStepIfAny(c, t) ==
    IF c.steps = <<>> THEN c ELSE [c EXCEPT !.steps = Pop(@), !.updated_at = t]

\* {"$pop": {"steps": 1}, "$set": {"updated_at": t}}
PopStep(c, t) == [c EXCEPT !.steps = Pop(@), !.updated_at = t]

\* a reset written as the undo's $pop would remove one step only
ClearLastStep(c, t) == [c EXCEPT !.steps = Pop(@), !.updated_at = t]

\* a reset that clears the pending/session snapshot along with the log
ClearStepsAndState(c, t) ==
    [c EXCEPT !.steps = <<>>, !.pending_steps = <<>>,
              !.session_state = EmptyDoc, !.updated_at = t]

\* a reset that puts the whole conversation back to blank, `initial` included
ClearStepsAndInitial(c, t) ==
    [c EXCEPT !.steps = <<>>, !.initial = EmptyDoc, !.updated_at = t]

\* {"$set": {"steps": [], "updated_at": t}}
ClearSteps(c, t) == [c EXCEPT !.steps = <<>>, !.updated_at = t]

\* an update that merges the payload into the stored snapshot
SetStateMerged(c, payload, t) ==
    [c EXCEPT !.pending_steps = @ \o payload.pendingSteps,
              !.session_state =
                  [k \in (DOMAIN @) \cup (DOMAIN payload.sessionState) |->
                      IF k \in DOMAIN payload.sessionState
                      THEN payload.sessionState[k] ELSE @[k]],
              !.updated_at = t]

\* {"$set": {"pending_steps": ..., "session_state": ..., "updated_at": t}}
SetState(c, payload, t) ==
    [c EXCEPT !.pending_steps = payload.pendingSteps,
              !.session_state = payload.sessionState,
              !.updated_at = t]

\* the update document a handler passes to update_one: which operators it
\* holds ($set title / $push steps / $pop steps / $set steps [] / $set
\* pending_steps, session_state), their argument, and the updated_at it $sets
Update(kind, arg, t) == [kind |-> kind, arg |-> arg, t |-> t]

\* the matching document after the update
Updated(c, u) ==
    CASE u.kind = "title" -> SetTitle(c, u.arg, u.t)
      [] u.kind = "push" -> PushStep(c, u.arg, u.t)
      [] u.kind = "pop" -> PopStep(c, u.t)
      [] u.kind = "clear" -> ClearSteps(c, u.t)
      [] u.kind = "state" -> SetState(c, u.arg, u.t)

\* update_one({"_id": id}, u): changes the one matching document, if any
update_one(coll, id, u) ==
    [i \in DOMAIN coll |-> IF i = id THEN Updated(coll[i], u) ELSE coll[i]]

\* the tail every mutating conversation handler shares: ObjectId(cid), one
\* update_one, 404 when nothing matched
UpdateConversation(op, cid, u) ==
    IF ~IsValidOid(cid)
    THEN /\ resp' = Uncaught(op)
         /\ UNCHANGED conversations
    ELSE LET id == ObjectId(cid) IN
         /\ conversations' = update_one(conversations, id, u)
         /\ resp' = IF matched_count(conversations, id) = 0
                    THEN HTTPException(op, 404, "Not found")
                    ELSE Ok(op, [ok |-> TRUE])

\* PATCH /conversations/{cid}/title
rename_conversation(cid, title) ==
    /\ \E t \in utcnow(now) :
         /\ now' = t
         /\ UpdateConversation("rename_conversation", cid, Update("title", title, t))
    /\ UNCHANGED <<objects, nextOid, inflight>>

\* an append that ran the step's ops through the patch engine, against the
\* conversation's `initial`, would refuse a step whose ops do not apply
append_step_applying(cid, payload) ==
    IF /\ IsValidOid(cid)
       /\ ObjectId(cid) \in DOMAIN conversations
       /\ ~JsonPatchApply(conversations[ObjectId(cid)].initial, payload.ops).ok
    THEN /\ resp' = HTTPException("append_step", 400, "patch_error")
         /\ UNCHANGED <<conversations, objects, nextOid, now, inflight>>
    ELSE /\ \E t1 \in utcnow(now) : \E t2 \in utcnow(t1) :
              /\ now' = t2
              /\ UpdateConversation("append_step", cid,
                                    Update("push", Step(payload, t1), t2))
         /\ UNCHANGED <<objects, nextOid, inflight>>

\* POST /conversations/{cid}/appendStep
append_step(cid, payload) ==
    /\ \E t1 \in utcnow(now) : \E t2 \in utcnow(t1) :
         /\ now' = t2
         /\ UpdateConversation("append_step", cid, Update("push", Step(payload, t1), t2))
    /\ UNCHANGED <<objects, nextOid, inflight>>

\* POST /conversations/{cid}/undo
undo_last(cid) ==
    /\ \E t \in utcnow(now) :
         /\ now' = t
         /\ UpdateConversation("undo_last", cid, Update("pop", None, t))
    /\ UNCHANGED <<objects, nextOid, inflight>>

\* POST /conversations/{cid}/reset
reset_steps(cid) ==
    /\ \E t \in utcnow(now) :
         /\ now' = t
         /\ UpdateConversation("reset_steps", cid, Update("clear", None, t))
    /\ UNCHANGED <<objects, nextOid, inflight>>

\* PATCH /conversations/{cid}/state
update_state(cid, payload) ==
    /\ \E t \in utcnow(now) :
         /\ now' = t
         /\ UpdateConversation("update_state", cid, Update("state", payload, t))
    /\ UNCHANGED <<objects, nextOid, inflight>>

-----------------------------------------------------------------------------
(* The requests the model sends: every handler with every input, as long   *)
(* as the bounds leave room for what the request would add.                *)

ObjectsHaveRoom == Cardinality(DOMAIN objects) < MaxObjects

ConversationsHaveRoom == Cardinality(DOMAIN conversations) < MaxConvs

StepsHaveRoom(cid) ==
    IsValidOid(cid) /\ ObjectId(cid) \in DOMAIN conversations
        => Len(conversations[ObjectId(cid)].steps) < MaxSteps

Next ==
    \/ \E doc \in DocInputs : ObjectsHaveRoom /\ create_object(doc)
    \/ \E s \in IdInputs : get_object(s)
    \/ \E s \in IdInputs, patch \in PatchInputs : apply_patch(s, patch)
    \/ \E title_opt \in TitleOptInputs, initial_opt \in InitialOptInputs :
         ConversationsHaveRoom /\ create_conversation(title_opt, initial_opt)
    \/ list_conversations
    \/ \E s \in IdInputs : get_conversation(s)
    \/ \E s \in IdInputs, title \in TitleInputs : rename_conversation(s, title)
    \/ \E s \in IdInputs, payload \in AppendInputs :
         StepsHaveRoom(s) /\ append_step(s, payload)
    \/ \E s \in IdInputs : undo_last(s)
    \/ \E s \in IdInputs : reset_steps(s)
    \/ \E s \in IdInputs, payload \in StateInputs : update_state(s, payload)

Spec == Init /\ [][Next]_vars

-----------------------------------------------------------------------------
(* Two conversations side by side: a client creates conversation A, then   *)
(* B, lists them at any time and works on A, the first it created.         *)

\* the id string of the conversation created first
FirstCreated ==
    {str(id) : id \in {i \in DOMAIN conversations :
                          \A j \in DOMAIN conversations : i <= j}}

TwoHaveRoom == Cardinality(DOMAIN conversations) < TwoConvs

NextTwo ==
    \/ \E title_opt \in TitleOptInputs, initial_opt \in InitialOptInputs :
         TwoHaveRoom /\ create_conversation(title_opt, initial_opt)
    \/ list_conversations
    \/ \E s \in FirstCreated, title \in TitleInputs : rename_conversation(s, title)
    \/ \E s \in FirstCreated, payload \in AppendInputs :
         StepsHaveRoom(s) /\ append_step(s, payload)
    \/ \E s \in FirstCreated : undo_last(s)
    \/ \E s \in FirstCreated : reset_steps(s)
    \/ \E s \in FirstCreated, payload \in StateInputs : update_state(s, payload)

SpecTwo == Init /\ [][NextTwo]_vars

-----------------------------------------------------------------------------
(* Requests side by side.  The server runs each handler in a worker of its *)
(* own, so between a handler's preparation (reading the clock, building    *)
(* the update document; for apply_patch the find_one) and its update_one   *)
(* other handlers take steps.  A request stays in `inflight` once answered,*)
(* with pc "done" and the status it was answered with.  Clients name the   *)
(* ids the server has handed out.                                          *)

Request(op, id, arg) ==
    [op |-> op, id |-> id, arg |-> arg, pc |-> "update_one", status |-> 0]

ConvIds == {str(id) : id \in DOMAIN conversations}

ObjectIds == {str(id) : id \in DOMAIN objects}

\* a mutating conversation handler up to its call of update_one: cid is
\* parsed and the update document built, with the clock read at u.t last
BeginUpdate(op, cid, u) ==
    IF ~IsValidOid(cid)
    THEN /\ resp' = Uncaught(op)
         /\ UNCHANGED <<conversations, objects, nextOid, now, inflight>>
    ELSE /\ now' = u.t
         /\ inflight' = Append(inflight, Request(op, cid, u))
         /\ UNCHANGED <<conversations, objects, nextOid, resp>>

rename_conversation_begin(cid, title) ==
    \E t \in utcnow(now) :
        BeginUpdate("rename_conversation", cid, Update("title", title, t))

append_step_begin(cid, payload) ==
    \E t1 \in utcnow(now) : \E t2 \in utcnow(t1) :
        BeginUpdate("append_step", cid, Update("push", Step(payload, t1), t2))

undo_last_begin(cid) ==
    \E t \in utcnow(now) : BeginUpdate("undo_last", cid, Update("pop", None, t))

reset_steps_begin(cid) ==
    \E t \in utcnow(now) : BeginUpdate("reset_steps", cid, Update("clear", None, t))

update_state_begin(cid, payload) ==
    \E t \in utcnow(now) :
        BeginUpdate("update_state", cid, Update("state", payload, t))

\* the update_one of a mutating conversation handler, and its answer
conversation_update_one(i) ==
    LET r == inflight[i] IN
    /\ r.pc = "update_one"
    /\ r.op # "apply_patch"
    /\ UpdateConversation(r.op, r.id, r.arg)
    /\ inflight' = [inflight EXCEPT ![i].pc = "done", ![i].status = resp'.status]
    /\ UNCHANGED <<objects, nextOid, now>>

\* apply_patch up to and including its find_one
apply_patch_find_one(object_id, patch) ==
    IF ~IsValidOid(object_id)
    THEN /\ resp' = HTTPException("apply_patch", 400, "invalid_id")
         /\ UNCHANGED <<conversations, objects, nextOid, now, inflight>>
    ELSE LET found == find_one(objects, ObjectId(object_id)) IN
         IF found = <<>>
         THEN /\ resp' = HTTPException("apply_patch", 404, "not_found")
              /\ UNCHANGED <<conversations, objects, nextOid, now, inflight>>
         ELSE /\ inflight' = Append(inflight,
                                Request("apply_patch", object_id,
                                        [obj |-> found[1], patch |-> patch]))
              /\ UNCHANGED <<conversations, objects, nextOid, now, resp>>

\* the rest of apply_patch: the patch applied to the doc that was fetched,
\* and update_one({"_id": obj["_id"]}, {"$set": {"doc": updated}})
apply_patch_update_one(i) ==
    LET r == inflight[i] IN
    /\ r.pc = "update_one"
    /\ r.op = "apply_patch"
    /\ LET res == JsonPatchApply(r.arg.obj.doc, r.arg.patch) IN
       IF ~res.ok
       THEN /\ resp' = HTTPException("apply_patch", 400, "patch_error")
            /\ UNCHANGED objects
       ELSE /\ objects' = [id \in DOMAIN objects |->
                             IF id = ObjectId(r.id)
                             THEN SetDoc(objects[id], res.doc) ELSE objects[id]]
            /\ resp' = Ok("apply_patch", [id |-> r.id, doc |-> res.doc])
    /\ inflight' = [inflight EXCEPT ![i].pc = "done", ![i].status = resp'.status]
    /\ UNCHANGED <<conversations, nextOid, now>>

InflightHasRoom == Len(inflight) < MaxInflight

NextConc ==
    \/ \E doc \in DocInputs : ObjectsHaveRoom /\ create_object(doc)
    \/ \E title_opt \in TitleOptInputs, initial_opt \in InitialOptInputs :
         ConversationsHaveRoom /\ create_conversation(title_opt, initial_opt)
    \/ \E s \in ConvIds, title \in TitleInputs :
         InflightHasRoom /\ rename_conversation_begin(s, title)
    \/ \E s \in ConvIds, payload \in AppendInputs :
         InflightHasRoom /\ append_step_begin(s, payload)
    \/ \E s \in ConvIds : InflightHasRoom /\ undo_last_begin(s)
    \/ \E s \in ConvIds : InflightHasRoom /\ reset_steps_begin(s)
    \/ \E s \in ConvIds, payload \in StateInputs :
         InflightHasRoom /\ update_state_begin(s, payload)
    \/ \E s \in ObjectIds, patch \in PatchInputs :
         InflightHasRoom /\ apply_patch_find_one(s, patch)
    \/ \E i \in 1..Len(inflight) : conversation_update_one(i)
    \/ \E i \in 1..Len(inflight) : apply_patch_update_one(i)

SpecConc == Init /\ [][NextConc]_vars

-----------------------------------------------------------------------------
(* Properties. *)

\* the stored conversation a request id names, when it names one
Exists(cid) == IsValidOid(cid) /\ ObjectId(cid) \in DOMAIN conversations

Conv(cid) == conversations[ObjectId(cid)]

RECURSIVE AppendAll(_, _, _)
\* the conversation after one appendStep per payload of run, at instant t
AppendAll(c, run, t) ==
    IF run = <<>> THEN c
    ELSE AppendAll(PushStep(c, Step(Head(run), t), t), Tail(run), t)

RECURSIVE UndoTimes(_, _, _)
\* the conversation after n undo calls at instant t
UndoTimes(c, n, t) ==
    IF n = 0 THEN c ELSE UndoTimes(PopStep(c, t), n - 1, t)

\* C1: when an appendStep succeeds on a conversation, then for every run of
\* further appendStep payloads that makes N appends in all (N = 1 .. MaxRun),
\* N undos after them leave `steps` as it was before the first append; for
\* a conversation whose log was empty the log is empty again.  (For N = 0
\* nothing is called.)
AppendsThenUndosRestoreSteps ==
    [][ \A s \in IdInputs, payload \in AppendInputs :
          ( /\ resp'.op = "append_step"
            /\ resp'.status = 200
            /\ append_step(s, payload) )
          => \A run \in SeqsUpTo(AppendInputs, MaxRun - 1) :
                UndoTimes(AppendAll(conversations'[ObjectId(s)], run, now'),
                          Len(run) + 1, now').steps
                    = Conv(s).steps ]_vars

\* an undo has just succeeded and left a step of an earlier append in the log
AppendsThenUndosWitness ==
    /\ resp.op = "undo_last"
    /\ resp.status = 200
    /\ \E id \in DOMAIN conversations : Len(conversations[id].steps) = MaxSteps - 1

\* C2: an undo of an existing conversation whose `steps` is empty answers
\* 200, leaves `steps` empty and sets updated_at to the instant the handler
\* read from the clock.
UndoOnEmptyIsNoOpButRefreshes ==
    [][ \A s \in IdInputs :
          ( /\ resp'.op = "undo_last"
            /\ undo_last(s)
            /\ Exists(s)
            /\ Conv(s).steps = <<>> )
          => /\ resp'.status = 200
             /\ conversations'[ObjectId(s)].steps = <<>>
             /\ conversations'[ObjectId(s)].updated_at = now' ]_vars

\* an undo has succeeded on a conversation that never had a step and whose
\* updated_at it has moved past created_at
UndoOnEmptyWitness ==
    /\ resp.op = "undo_last"
    /\ resp.status = 200
    /\ nextOid = 1
    /\ \E id \in DOMAIN conversations :
         /\ conversations[id].steps = <<>>
         /\ conversations[id].pending_steps = <<>>
         /\ conversations[id].title = "A"
         /\ conversations[id].created_at < conversations[id].updated_at

\* c and d agree on every field but updated_at
SameButUpdatedAt(c, d) ==
    [c EXCEPT !.updated_at = 0] = [d EXCEPT !.updated_at = 0]

\* C3: a reset of an existing conversation answers 200 and leaves the
\* conversation with empty `steps` and every other field but updated_at as
\* it was; a second reset of the conversation it leaves, at any instant,
\* changes nothing but updated_at.
ResetIsIdempotent ==
    [][ \A s \in IdInputs :
          ( /\ resp'.op = "reset_steps"
            /\ reset_steps(s)
            /\ Exists(s) )
          => LET once == conversations'[ObjectId(s)] IN
             /\ resp'.status = 200
             /\ once.steps = <<>>
             /\ SameButUpdatedAt(once, [Conv(s) EXCEPT !.steps = <<>>])
             /\ \A t \in 0..MaxTime :
                  SameButUpdatedAt(ClearSteps(once, t), once) ]_vars

\* a reset has succeeded, later than the creation, on a conversation whose
\* snapshot had been set
ResetWitness ==
    /\ resp.op = "reset_steps"
    /\ resp.status = 200
    /\ \E id \in DOMAIN conversations :
         /\ conversations[id].steps = <<>>
         /\ conversations[id].pending_steps # <<>>
         /\ conversations[id].created_at < conversations[id].updated_at

\* C4: after a successful updateState(id, P, S) the stored pending_steps is
\* exactly P and the stored session_state exactly S.
UpdateStateReplaces ==
    [][ \A s \in IdInputs, payload \in StateInputs :
          ( /\ resp'.op = "update_state"
            /\ resp'.status = 200
            /\ update_state(s, payload) )
          => /\ conversations'[ObjectId(s)].pending_steps = payload.pendingSteps
             /\ conversations'[ObjectId(s)].session_state = payload.sessionState ]_vars

\* an updateState has succeeded and left an empty snapshot on a conversation
\* that has steps
UpdateStateWitness ==
    /\ resp.op = "update_state"
    /\ resp.status = 200
    /\ \E id \in DOMAIN conversations :
         /\ conversations[id].pending_steps = <<>>
         /\ conversations[id].session_state = EmptyDoc
         /\ conversations[id].steps # <<>>

\* the conversations that exist keep pending_steps and session_state
SnapshotUnchanged ==
    \A id \in DOMAIN conversations :
        /\ id \in DOMAIN conversations'
        /\ conversations'[id].pending_steps = conversations[id].pending_steps
        /\ conversations'[id].session_state = conversations[id].session_state

\* the conversations that exist keep steps
StepsUnchanged ==
    \A id \in DOMAIN conversations :
        /\ id \in DOMAIN conversations'
        /\ conversations'[id].steps = conversations[id].steps

\* C5: appendStep, undo and reset change no conversation's pending_steps or
\* session_state; updateState changes no conversation's steps; rename
\* changes none of the three.
LogAndSnapshotIndependent ==
    [][ /\ resp'.op \in {"append_step", "undo_last", "reset_steps"}
            => SnapshotUnchanged
        /\ resp'.op = "update_state" => StepsUnchanged
        /\ resp'.op = "rename_conversation"
            => SnapshotUnchanged /\ StepsUnchanged ]_vars

\* a reset has emptied the log of a conversation whose snapshot is set
IndependentWitness ==
    /\ resp.op = "reset_steps"
    /\ resp.status = 200
    /\ \E id \in DOMAIN conversations :
         /\ conversations[id].steps = <<>>
         /\ conversations[id].pending_steps # <<>>
         /\ conversations[id].session_state # EmptyDoc

\* C6: create stores the supplied `initial`, or the empty document when none
\* is supplied; no step changes the `initial` of an existing conversation;
\* a successful get returns the stored `initial`.
InitialIsImmutable ==
    [][ /\ \A id \in DOMAIN conversations :
              /\ id \in DOMAIN conversations'
              /\ conversations'[id].initial = conversations[id].initial
        /\ \A title_opt \in TitleOptInputs, initial_opt \in InitialOptInputs :
              ( /\ resp'.op = "create_conversation"
                /\ create_conversation(title_opt, initial_opt) )
              => conversations'[nextOid'].initial =
                    IF initial_opt = <<>> THEN EmptyDoc ELSE initial_opt[1]
        /\ \A s \in IdInputs :
              ( /\ resp'.op = "get_conversation"
                /\ resp'.status = 200
                /\ get_conversation(s) )
              => resp'.body[1].initial = Conv(s).initial ]_vars

\* a get returns the supplied `initial` of a conversation that has since been
\* renamed, appended to and given a snapshot
InitialWitness ==
    /\ resp.op = "get_conversation"
    /\ resp.status = 200
    /\ resp.body[1].initial = DocA1
    /\ resp.body[1].title = ""
    /\ resp.body[1].steps # <<>>
    /\ resp.body[1].pendingSteps # <<>>

\* C7: an applyPatch that answers 400 patch_error leaves every stored
\* object as it was.
FailedPatchPersistsNothing ==
    [][ ( /\ resp'.op = "apply_patch"
          /\ resp'.status = 400
          /\ resp'.detail = "patch_error" )
        => objects' = objects ]_vars

\* a patch has failed on a stored object
FailedPatchWitness ==
    /\ resp.op = "apply_patch"
    /\ resp.status = 400
    /\ resp.detail = "patch_error"
    /\ \E id \in DOMAIN objects : objects[id].doc = DocA1

AddX == <<Op("add", "/x", 1)>>

RemoveX == <<Op("remove", "/x", None)>>

\* C8: when an applyPatch of [add /x 1] succeeds on an object whose doc has
\* no key x, a following applyPatch of [remove /x] on the object succeeds
\* and persists the doc the object had before the add.
AddThenRemoveRoundTrip ==
    [][ \A s \in IdInputs :
          ( /\ resp'.op = "apply_patch"
            /\ resp'.status = 200
            /\ apply_patch(s, AddX)
            /\ "x" \notin DOMAIN objects[ObjectId(s)].doc )
          => LET added == objects'[ObjectId(s)]
                 r == JsonPatchApply(added.doc, RemoveX) IN
             /\ added.doc = DocWith(objects[ObjectId(s)].doc, "x", 1)
             /\ r.ok
             /\ SetDoc(added, r.doc) = objects[ObjectId(s)] ]_vars

\* a remove has succeeded and left the empty doc, which only the removal of
\* an added x produces
RoundTripWitness ==
    /\ resp.op = "apply_patch"
    /\ resp.status = 200
    /\ resp.body[1].doc = EmptyDoc
    /\ \E id \in DOMAIN objects : objects[id].doc = EmptyDoc

\* C9 (as claimed): a get with an id that is malformed or names no
\* conversation answers 404.
GetFailsWithNotFound ==
    [][ \A s \in IdInputs :
          ( /\ resp'.op = "get_conversation"
            /\ get_conversation(s)
            /\ ~Exists(s) )
          => resp'.status = 404 ]_vars

\* a step of the mutating conversation handler named op, for request id s
Mutating(op, s) ==
    \/ op = "rename_conversation" /\ \E title \in TitleInputs : rename_conversation(s, title)
    \/ op = "append_step" /\ \E payload \in AppendInputs : append_step(s, payload)
    \/ op = "undo_last" /\ undo_last(s)
    \/ op = "reset_steps" /\ reset_steps(s)
    \/ op = "update_state" /\ \E payload \in StateInputs : update_state(s, payload)

MutatingOps ==
    {"rename_conversation", "append_step", "undo_last", "reset_steps", "update_state"}

\* C10: rename, appendStep, undo, reset and updateState with a well-formed
\* id that names no conversation answer 404 and leave the collection of
\* conversations as it was.
AbsentIdIsNotFound ==
    [][ \A s \in IdInputs :
          ( /\ resp'.op \in MutatingOps
            /\ IsValidOid(s)
            /\ ~Exists(s)
            /\ Mutating(resp'.op, s) )
          => /\ resp'.status = 404
             /\ conversations' = conversations ]_vars

\* an append to an id that names no conversation was answered 404 while a
\* conversation exists
AbsentIdWitness ==
    /\ resp.op = "append_step"
    /\ resp.status = 404
    /\ DOMAIN conversations # {}

\* C11 (as claimed): a rename of an existing conversation to the empty title
\* is not answered 200 and leaves the stored title as it was.
RenameRejectsEmptyTitle ==
    [][ \A s \in IdInputs :
          ( /\ resp'.op = "rename_conversation"
            /\ rename_conversation(s, "")
            /\ Exists(s) )
          => /\ resp'.status # 200
             /\ conversations'[ObjectId(s)].title = Conv(s).title ]_vars

\* patch holds an operation other than add, replace and remove
HasOtherOp(patch) ==
    \E i \in 1..Len(patch) : patch[i].op \notin {"add", "replace", "remove"}

\* C14 (as claimed): an applyPatch of a stored object with a patch that
\* holds a move, copy or test operation is not answered 200 and leaves
\* every stored object as it was.
OtherOpsAreRejected ==
    [][ \A s \in IdInputs, patch \in PatchInputs :
          ( /\ resp'.op = "apply_patch"
            /\ HasOtherOp(patch)
            /\ apply_patch(s, patch)
            /\ IsValidOid(s)
            /\ ObjectId(s) \in DOMAIN objects )
          => /\ resp'.status # 200
             /\ objects' = objects ]_vars

ConversationOps ==
    MutatingOps \cup {"create_conversation", "list_conversations", "get_conversation"}

\* C15: no conversation request changes a stored object and no applyPatch
\* changes a stored conversation; an appendStep to an existing conversation
\* answers 200 and stores the ops of its payload as the last step, whether
\* or not the patch engine could apply them to some document.
ConversationsAndObjectsDecoupled ==
    [][ /\ resp'.op \in ConversationOps => objects' = objects
        /\ resp'.op = "apply_patch" => conversations' = conversations
        /\ \A s \in IdInputs, payload \in AppendInputs :
              ( /\ resp'.op = "append_step"
                /\ append_step(s, payload)
                /\ Exists(s) )
              => LET after == conversations'[ObjectId(s)].steps IN
                 /\ resp'.status = 200
                 /\ Len(after) = Len(Conv(s).steps) + 1
                 /\ after[Len(after)].ops = payload.ops ]_vars

\* an append has stored ops that apply neither to the stored object nor to
\* the conversation's `initial`, and the stored object has been patched
DecoupledWitness ==
    /\ resp.op = "append_step"
    /\ resp.status = 200
    /\ \E id \in DOMAIN objects : objects[id].doc = [k \in {"a", "x"} |-> 1]
    /\ \E id \in DOMAIN conversations :
         LET c == conversations[id] IN
         /\ c.steps # <<>>
         /\ ~JsonPatchApply(c.initial, c.steps[Len(c.steps)].ops).ok
         /\ \A o \in DOMAIN objects :
              ~JsonPatchApply(objects[o].doc, c.steps[Len(c.steps)].ops).ok

\* C16: in every step each existing conversation stays, and its `steps`
\* either stays as it was, or gains one step at the end (appendStep), or
\* loses exactly its last step (undo), or becomes empty (reset); the steps
\* that remain are the same steps in the same positions.
StepsChangeOnlyAtTheEnd ==
    [][ \A id \in DOMAIN conversations :
          /\ id \in DOMAIN conversations'
          /\ LET old == conversations[id].steps
                 new == conversations'[id].steps IN
             \/ new = old
             \/ /\ resp'.op = "append_step"
                /\ Len(new) = Len(old) + 1
                /\ SubSeq(new, 1, Len(old)) = old
             \/ /\ resp'.op = "undo_last"
                /\ old # <<>>
                /\ new = SubSeq(old, 1, Len(old) - 1)
             \/ /\ resp'.op = "reset_steps"
                /\ new = <<>> ]_vars

\* an undo has left one step in the log, appended before the conversation
\* was last updated
StepsChangeWitness ==
    /\ resp.op = "undo_last"
    /\ resp.status = 200
    /\ \E id \in DOMAIN conversations :
         /\ Len(conversations[id].steps) = 1
         /\ conversations[id].steps[1].at < conversations[id].updated_at

\* the position of conversation id in a list response
Position(items, id) == CHOOSE i \in 1..Len(items) : items[i].id = str(id)

\* C12 (amended): a list answers with every stored conversation exactly
\* once, each with its stored title and updated_at, in an order in which
\* updated_at never increases; so a conversation whose updated_at is
\* strictly later than another's is listed before it.
ListIsSortedAndComplete ==
    [][ resp'.op = "list_conversations" =>
          LET items == resp'.body[1].items IN
          /\ Len(items) = Cardinality(DOMAIN conversations)
          /\ \A id \in DOMAIN conversations :
                /\ Cardinality({i \in 1..Len(items) : items[i].id = str(id)}) = 1
                /\ items[Position(items, id)] = Item(id)
          /\ \A i \in 1..(Len(items) - 1) :
                items[i].updated_at >= items[i + 1].updated_at
          /\ \A a \in DOMAIN conversations, b \in DOMAIN conversations :
                conversations[a].updated_at > conversations[b].updated_at
                    => Position(items, a) < Position(items, b) ]_vars

\* a list has answered with A, created first and updated since, before B
ListWitness ==
    /\ resp.op = "list_conversations"
    /\ Len(resp.body[1].items) = 2
    /\ {resp.body[1].items[1].id} = FirstCreated
    /\ resp.body[1].items[1].updated_at > resp.body[1].items[2].updated_at
    /\ \E id \in DOMAIN conversations :
         /\ str(id) \in FirstCreated
         /\ conversations[id].steps # <<>>

\* C12 (as claimed): when A and B exist and the last request was a
\* successful mutating operation on A, a list answers with A first.
ListPutsUpdatedFirst ==
    [][ ( /\ resp.op \in MutatingOps
          /\ resp.status = 200
          /\ Cardinality(DOMAIN conversations) = 2
          /\ resp'.op = "list_conversations" )
        => {resp'.body[1].items[1].id} = FirstCreated ]_vars

\* C13: a create without a title (or with an empty one) stores a non-empty
\* title that no conversation stored before it has, and every create stores
\* a conversation with empty steps, pending_steps and session_state.
CreateGeneratesDistinctTitle ==
    [][ \A title_opt \in TitleOptInputs, initial_opt \in InitialOptInputs :
          ( /\ resp'.op = "create_conversation"
            /\ create_conversation(title_opt, initial_opt) )
          => LET new == conversations'[nextOid'] IN
             /\ nextOid' \notin DOMAIN conversations
             /\ new.steps = <<>>
             /\ new.pending_steps = <<>>
             /\ new.session_state = EmptyDoc
             /\ NeedsGeneratedTitle(title_opt) =>
                   /\ new.title # ""
                   /\ \A id \in DOMAIN conversations :
                         conversations[id].title # new.title ]_vars

\* a second conversation has been created without a title while the first
\* still has the title generated for it
CreateWitness ==
    /\ resp.op = "create_conversation"
    /\ Cardinality(DOMAIN conversations) = 2
    /\ \A id \in DOMAIN conversations :
         /\ conversations[id].title \in OidStrings
         /\ conversations[id].steps = <<>>

\* request i takes its update_one step (and is answered) in this step
Finishes(i) ==
    /\ i \in 1..Len(inflight)
    /\ inflight[i].pc = "update_one"
    /\ inflight'[i].pc = "done"

\* C17 (amended): an applyPatch that succeeds replaces the stored doc, in
\* its one update_one, by the document its whole patch makes of the doc
\* its find_one fetched, and touches no other object; when no write reached
\* the object between the two that is the patch applied to the stored doc.
\* An applyPatch that fails writes nothing.
PatchWritesWhatItRead ==
    [][ \A i \in 1..Len(inflight) :
          ( /\ resp'.op = "apply_patch"
            /\ Finishes(i)
            /\ inflight[i].op = "apply_patch" )
          => LET r == inflight[i]
                 id == ObjectId(r.id)
                 res == JsonPatchApply(r.arg.obj.doc, r.arg.patch) IN
             /\ resp'.status = IF res.ok THEN 200 ELSE 400
             /\ \A o \in DOMAIN objects : o # id => objects'[o] = objects[o]
             /\ ~res.ok => objects' = objects
             /\ res.ok => objects'[id].doc = res.doc
             /\ (res.ok /\ objects[id] = r.arg.obj)
                  => objects'[id].doc =
                        JsonPatchApply(objects[id].doc, r.arg.patch).doc ]_vars

\* two applyPatch requests on one object have both succeeded, the second
\* to write having fetched the doc before the first wrote
PatchWitness ==
    /\ Len(inflight) = 2
    /\ \A i \in 1..2 :
         /\ inflight[i].op = "apply_patch"
         /\ inflight[i].pc = "done"
         /\ inflight[i].status = 200
    /\ inflight[1].id = inflight[2].id
    /\ inflight[1].arg.obj = inflight[2].arg.obj
    /\ inflight[1].arg.patch # inflight[2].arg.patch

\* the documents two patches make of doc when applied one after the other,
\* first then second, both succeeding
OneAfterTheOther(doc, first, second) ==
    LET r1 == JsonPatchApply(doc, first) IN
    IF ~r1.ok THEN {}
    ELSE LET r2 == JsonPatchApply(r1.doc, second) IN
         IF r2.ok THEN {r2.doc} ELSE {}

\* C17 (as claimed): once two applyPatch requests on one object, of add,
\* replace and remove operations, have both succeeded, however their steps
\* interleaved, the stored doc is what the two patches make, applied one
\* after the other in one of the two orders, of the doc the first of them
\* fetched.
PatchesApplyInSomeOrder ==
    \A i \in 1..Len(inflight), j \in 1..Len(inflight) :
        ( /\ i < j
          /\ Len(inflight) = 2
          /\ inflight[i].op = "apply_patch" /\ inflight[j].op = "apply_patch"
          /\ inflight[i].id = inflight[j].id
          /\ ~HasOtherOp(inflight[i].arg.patch)
          /\ ~HasOtherOp(inflight[j].arg.patch)
          /\ inflight[i].pc = "done" /\ inflight[j].pc = "done"
          /\ inflight[i].status = 200 /\ inflight[j].status = 200 )
        => objects[ObjectId(inflight[i].id)].doc \in
              OneAfterTheOther(inflight[i].arg.obj.doc,
                               inflight[i].arg.patch, inflight[j].arg.patch)
              \cup OneAfterTheOther(inflight[i].arg.obj.doc,
                                    inflight[j].arg.patch, inflight[i].arg.patch)

\* the requests of the given handlers that name conversation cid
RequestsOn(cid, ops) ==
    {i \in 1..Len(inflight) : inflight[i].id = cid /\ inflight[i].op \in ops}

\* how many times v occurs in seq
Count(seq, v) == Cardinality({i \in 1..Len(seq) : seq[i] = v})

\* C18: when every request on a conversation has been answered 200 and none
\* of them was an undo or a reset, then however their steps interleaved the
\* log holds one step per appendStep request and nothing else (each
\* request's step as often as it was requested, in either order), the title
\* is that of the rename if there was exactly one, and the snapshot that of
\* the updateState if there was exactly one.
ConcurrentWritesAllLand ==
    \A id \in DOMAIN conversations :
        LET cid == str(id)
            c == conversations[id]
            all == RequestsOn(cid, MutatingOps)
            appends == RequestsOn(cid, {"append_step"})
            renames == RequestsOn(cid, {"rename_conversation"})
            states == RequestsOn(cid, {"update_state"}) IN
        ( /\ RequestsOn(cid, {"undo_last", "reset_steps"}) = {}
          /\ \A i \in all : inflight[i].pc = "done" /\ inflight[i].status = 200 )
        => /\ Len(c.steps) = Cardinality(appends)
           /\ \A i \in appends :
                 Count(c.steps, inflight[i].arg.arg) =
                     Cardinality({j \in appends :
                                     inflight[j].arg.arg = inflight[i].arg.arg})
           /\ \A i \in renames :
                 Cardinality(renames) = 1 => c.title = inflight[i].arg.arg
           /\ \A i \in states :
                 Cardinality(states) = 1 =>
                     /\ c.pending_steps = inflight[i].arg.arg.pendingSteps
                     /\ c.session_state = inflight[i].arg.arg.sessionState

\* two appendStep requests were in flight together and the one that began
\* second reached the store first; both steps are in the log
ConcurrentAppendsWitness ==
    /\ Len(inflight) = 2
    /\ \A i \in 1..2 :
         /\ inflight[i].op = "append_step"
         /\ inflight[i].pc = "done"
         /\ inflight[i].status = 200
    /\ inflight[1].arg.arg # inflight[2].arg.arg
    /\ \E id \in DOMAIN conversations :
         conversations[id].steps = <<inflight[2].arg.arg, inflight[1].arg.arg>>

\* a request on the same conversation that began after request i has
\* already reached the store
Overtaken(i) ==
    \E j \in 1..Len(inflight) :
        /\ j > i
        /\ inflight[j].id = inflight[i].id
        /\ inflight[j].pc = "done"

\* C19 (amended): every stored conversation has created_at <= updated_at;
\* the update_one of a rename, appendStep, undo, reset or updateState that
\* is answered 200 sets updated_at to the instant its handler read from the
\* clock, and that is not earlier than the updated_at it replaces unless a
\* request that read the clock after it has written before it.
UpdatedAtIsRefreshed ==
    [][ /\ \A id \in DOMAIN conversations' :
              conversations'[id].created_at <= conversations'[id].updated_at
        /\ \A i \in 1..Len(inflight) :
              ( /\ resp'.op \in MutatingOps
                /\ resp'.status = 200
                /\ Finishes(i) )
              => LET id == ObjectId(inflight[i].id) IN
                 /\ conversations'[id].updated_at = inflight[i].arg.t
                 /\ ~Overtaken(i) =>
                       conversations'[id].updated_at >= conversations[id].updated_at ]_vars

\* the second of two requests has written after the first and moved
\* updated_at forward, past created_at
UpdatedAtWitness ==
    /\ Len(inflight) = 2
    /\ inflight[1].pc = "done" /\ inflight[2].pc = "done"
    /\ inflight[1].op = "rename_conversation"
    /\ resp.op = "undo_last"
    /\ inflight[1].arg.t < inflight[2].arg.t
    /\ \E id \in DOMAIN conversations :
         /\ conversations[id].updated_at = inflight[2].arg.t
         /\ conversations[id].created_at < conversations[id].updated_at

\* C19 (as claimed): in no step, whatever the interleaving of the requests,
\* does a conversation's updated_at decrease.
UpdatedAtNeverDecreases ==
    [][ \A id \in DOMAIN conversations :
          conversations'[id].updated_at >= conversations[id].updated_at ]_vars

=============================================================================
